---- MODULE Spec2Model ----
(***************************************************************************)
(* Model of the realtime synchronisation core of gardena-smart-system:     *)
(* GardenaLocation (snapshot registry, websocket session, reconnection)    *)
(* and GardenaDevice / GardenaMower (attribute merge).                      *)
(*                                                                         *)
(* Node runs every handler to completion on one event loop, so each action *)
(* below is one run-to-completion step: an external call up to its first   *)
(* await, the continuation after an await, a transport event handler, or a *)
(* timer callback.                                                         *)
(***************************************************************************)
EXTENDS Integers, Sequences, FiniteSets, TLC

\* ------------------------------------------------------------------ bounds
MaxTransports == 3      \* WebSocket objects constructed in one behaviour
MaxProcs == 3           \* async invocations (external start() calls and resetWS runs)
MaxLinked == 2          \* linked device ids in a snapshot payload
MaxIncluded == 2        \* characteristic records in a snapshot payload
MaxUpdates == 1         \* snapshot refreshes in one behaviour of SnapSpec
MaxDeltaLen == 2        \* attributes in one inbound message
MaxMessages == 2        \* inbound messages in one behaviour of MsgSpec
MaxStack == 3           \* nested calls the engine's call stack has room for
MaxReads == 2           \* steps in one behaviour of MowerSpec

\* --------------------------------------------------------------- constants
PING_INTERVAL == 150000 \* heartbeat period in ms
PONG_TIMEOUT == 1000    \* watchdog delay in ms
COOLDOWN == 10000       \* wait of resetWS before it reconnects, in ms

NoWs == 0               \* GardenaLocation.ws is undefined
Undefined == "undefined" \* the JavaScript value undefined, as a property value
Absent == "absent"      \* an optional JSON member that is not there

VARIABLES
  keepWsAlive,      \* GardenaLocation.keepWsAlive (undefined is modelled as FALSE)
  ws,               \* GardenaLocation.ws: index into transports, or NoWs
  devices,          \* GardenaLocation.devices: [defined, list, gen]; undefined until a snapshot
                    \* succeeds; gen counts the arrays assigned, the entities of list are the
                    \* instances built for assignment gen
  wsPingInterval,   \* GardenaLocation.wsPingInterval: last interval handle stored
  wsPongTimeout,    \* GardenaLocation.wsPongTimeout: last timeout handle stored
  transports,       \* every WebSocket constructed so far, in construction order
  intervals,        \* armed setInterval timers (named by the transport whose open armed them)
  timeouts,         \* armed watchdog setTimeout timers
  pings,            \* transports with a ping whose completion callback is pending
  procs,            \* async invocations: external start() calls and resetWS runs
  crashed,          \* an exception escaped a timer callback or listener, or an unhandled
                    \* rejection ended the process
  userStopped,      \* history: stop() was called with no external start() in flight, and none since
  last              \* history: the last registry operation or notification round, its input and result

sessionVars == <<keepWsAlive, ws, wsPingInterval, wsPongTimeout, transports,
                 intervals, timeouts, pings, procs, crashed, userStopped>>
vars == <<keepWsAlive, ws, devices, wsPingInterval, wsPongTimeout, transports,
          intervals, timeouts, pings, procs, crashed, userStopped, last>>


\* =========================================================================
\* Device entities (GardenaDevice.ts, GardenaMower.ts)
\* =========================================================================
\* An entity is the bag of its own properties: a function from property name
\* to value.  Property values are strings: "undefined", an id, an attribute
\* value, or a Moment.

\* Fields declared by class GardenaDevice; each is an own property of every
\* instance from construction on (class-field semantics), holding undefined
\* until assigned.
DeviceFields ==
  {"connection", "id", "serial", "modelType", "name", "batteryLevel",
   "batteryLevelTs", "batteryState", "batteryStateTs", "rfLinkLevel",
   "rfLinkLevelTs", "rfLinkState"}

\* Fields declared by class GardenaMower.
MowerFields ==
  {"serviceId", "state", "stateTs", "activity", "activityTs", "lastErrorCode",
   "lastErrorCodeTs", "operatingHours"}

\* Names an instance inherits from its prototype chain: the methods of
\* GardenaDevice and GardenaMower and the EventEmitter methods the code uses.
ProtoMethods ==
  {"processAttributes", "onStartRealtimeUpdates", "onStopRealtimeUpdates",
   "onUpdate", "parkUntilFurtherNotice", "parkUntilNextTask", "resumeSchedule",
   "startMowing", "command", "emit", "on"}

\* Accessor properties of the prototype that have a getter and no setter.
ProtoGetters == {"error"}

\* Moment(timestamp): the parsed timestamp object, never the raw string.
Moment(timestamp) == "Moment(" \o timestamp \o ")"

\* `field in this`: own properties and everything on the prototype chain.
InThis(dev, field) ==
  field \in (DOMAIN dev) \cup ProtoMethods \cup ProtoGetters

\* this[field] = value: creates the own property when it is not there yet.
SetProp(dev, field, value) ==
  [f \in (DOMAIN dev) \cup {field} |-> IF f = field THEN value ELSE dev[f]]

\* The body of the for-in loop of processAttributes for one field of the
\* attribute map.  st = [dev, updatedFields, threw]; an assignment to a
\* getter-only accessor throws a TypeError (class code is strict), which
\* ends the loop with the writes made so far kept.
ProcessField(st, a) ==
  IF st.threw \/ ~InThis(st.dev, a.name) THEN st
  ELSE IF a.name \in ProtoGetters /\ a.name \notin DOMAIN st.dev
    THEN [st EXCEPT !.threw = TRUE]
  ELSE
    LET d1 == SetProp(st.dev, a.name, a.value)
        d2 == IF a.ts # Absent THEN SetProp(d1, a.name \o "Ts", a.ts) ELSE d1
    IN [dev |-> d2, updatedFields |-> Append(st.updatedFields, a.name), threw |-> FALSE]

RECURSIVE ProcessLoop(_, _)
ProcessLoop(st, attributes) ==
  IF attributes = <<>> THEN st
  ELSE ProcessLoop(ProcessField(st, Head(attributes)), Tail(attributes))

\* GardenaDevice.processAttributes.  attributes is the attribute map in its
\* enumeration order: a sequence of [name, value, ts] with distinct names.
processAttributes(dev, attributes) ==
  ProcessLoop([dev |-> dev, updatedFields |-> <<>>, threw |-> FALSE], attributes)

\* new GardenaMower(connection, id, serviceId, attributes).
NewGardenaMower(id, serviceId, attributes) ==
  LET fresh == [f \in DeviceFields \cup MowerFields |->
                  CASE f = "connection" -> "connection"
                    [] f = "id" -> id
                    [] f = "serviceId" -> serviceId
                    [] OTHER -> Undefined]
  IN processAttributes(fresh, attributes)

\* GardenaMower's getter `error`, entered with room for stack more calls.
\* It reads this.error, which is the getter itself; a call with no room left
\* throws a RangeError.  Result: [value, threw].
RECURSIVE error(_, _)
error(dev, stack) ==
  IF stack = 0 THEN [value |-> Undefined, threw |-> TRUE]
  ELSE IF dev["state"] \in {"ERROR", "WARNING"}
    THEN LET test == error(dev, stack - 1)
         IN IF test.threw THEN test
            ELSE IF test.value \notin {"null", Undefined}
              THEN error(dev, stack - 1)
              ELSE [value |-> "null", threw |-> FALSE]
    ELSE [value |-> "null", threw |-> FALSE]

\* =========================================================================
\* Device registry (GardenaLocation.updateDevicesList, onWSMessage)
\* =========================================================================
supportedDeviceTypes == {"MOWER"}

\* A snapshot payload is [hasData, devicesData, hasIncluded, included]:
\* devicesData is the sequence of linked device ids
\* (res.data.relationships.devices.data) and included the sequence of
\* characteristic records; hasData and hasIncluded say whether the member is
\* there.  A record is [id, type, services, device, hasAttributes,
\* attributes]: services says whether relationships.services.data is there,
\* device is relationships.device.data.id or Absent, attributes is a
\* sequence of [name, value, timestamp] (timestamp may be Absent).

\* The filter callback: the record is linked to deviceId.
LinkedTo(x, deviceId) ==
  \/ x.id = deviceId /\ x.services
  \/ x.device # Absent /\ x.device = deviceId

RECURSIVE SelectSeq2(_, _)
SelectSeq2(seq, deviceId) ==
  IF seq = <<>> THEN <<>>
  ELSE IF LinkedTo(Head(seq), deviceId)
    THEN <<Head(seq)>> \o SelectSeq2(Tail(seq), deviceId)
    ELSE SelectSeq2(Tail(seq), deviceId)

\* rawCharacteristics.find(x => supported type): index of the first, or 0.
FindWithType(rawCharacteristics) ==
  LET hits == {i \in 1..Len(rawCharacteristics) :
                 rawCharacteristics[i].type \in supportedDeviceTypes}
  IN IF hits = {} THEN 0 ELSE CHOOSE i \in hits : \A j \in hits : i <= j

\* A merge in which the first record that names a field wins.
C37_PutAttrKeepsFirst(attributes, raw) ==
  LET entry == [name |-> raw.name, value |-> raw.value,
                ts |-> IF raw.timestamp # Absent THEN Moment(raw.timestamp) ELSE Absent]
      at == {i \in 1..Len(attributes) : attributes[i].name = raw.name}
  IN IF at = {} THEN Append(attributes, entry) ELSE attributes

\* attributes[attrName] = {value, ts?}: the entry replaces an earlier entry of
\* the same name in place (key order is first-insertion order).
PutAttr(attributes, raw) ==
  LET entry == [name |-> raw.name, value |-> raw.value,
                ts |-> IF raw.timestamp # Absent THEN Moment(raw.timestamp) ELSE Absent]
      at == {i \in 1..Len(attributes) : attributes[i].name = raw.name}
  IN IF at = {} THEN Append(attributes, entry)
     ELSE [i \in 1..Len(attributes) |-> IF i \in at THEN entry ELSE attributes[i]]

RECURSIVE ConvertAttributes(_, _)
ConvertAttributes(attributes, rawAttributes) ==
  IF rawAttributes = <<>> THEN attributes
  ELSE ConvertAttributes(PutAttr(attributes, Head(rawAttributes)), Tail(rawAttributes))

\* The loop over rawCharacteristics that collects every record's attributes.
RECURSIVE CollectAttributes(_, _)
CollectAttributes(attributes, rawCharacteristics) ==
  IF rawCharacteristics = <<>> THEN attributes
  ELSE LET c == Head(rawCharacteristics)
           next == IF c.hasAttributes
                   THEN ConvertAttributes(attributes, c.attributes) ELSE attributes
       IN CollectAttributes(next, Tail(rawCharacteristics))

\* The loop over deviceIds.  st = [devices, threw].  Reading .type of an
\* undefined characteristicWithType throws a TypeError.
BuildDevice(st, deviceId, included) ==
  IF st.threw THEN st
  ELSE
    LET rawCharacteristics == SelectSeq2(included, deviceId)
        k == FindWithType(rawCharacteristics)
    IN IF k = 0 THEN [st EXCEPT !.threw = TRUE]
       ELSE
         LET type == rawCharacteristics[k].type
             serviceId == rawCharacteristics[k].id
             attributes == CollectAttributes(<<>>, rawCharacteristics)
             made == NewGardenaMower(deviceId, serviceId, attributes)
         IN IF type = "MOWER"
            THEN IF made.threw THEN [st EXCEPT !.threw = TRUE]
                 ELSE [st EXCEPT !.devices = Append(@, made.dev)]
            ELSE st

RECURSIVE BuildLoop(_, _, _)
BuildLoop(st, deviceIds, included) ==
  IF deviceIds = <<>> THEN st
  ELSE BuildLoop(BuildDevice(st, Head(deviceIds), included), Tail(deviceIds), included)

\* An updateDevicesList that loops over the payload without testing that
\* the two lists are there.
C35_BuildWithoutShapeTest(res) ==
  BuildLoop([devices |-> <<>>, threw |-> FALSE], res.devicesData, res.included)

\* The part of updateDevicesList after the request returned res: the list of
\* entities it builds, or threw when it raises GardenaApiError.
BuildFromSnapshot(res) ==
  IF res.hasData /\ res.hasIncluded
    THEN BuildLoop([devices |-> <<>>, threw |-> FALSE], res.devicesData, res.included)
    ELSE [devices |-> <<>>, threw |-> TRUE]

\* GardenaDevice.ids, read by onWSMessage: the primary and the secondary id.
Ids(x) == {x["id"], x["serviceId"]}

FirstIndex(S) == IF S = {} THEN 0 ELSE CHOOSE i \in S : \A j \in S : i <= j

\* A match that consults the device relationship before the message id.
C27_MatchDeviceByRelationshipFirst(devs, json) ==
  LET byRel == IF json.device # Absent
                 THEN FirstIndex({i \in 1..Len(devs) : devs[i]["id"] = json.device})
                 ELSE 0
  IN IF byRel # 0 THEN byRel
     ELSE FirstIndex({i \in 1..Len(devs) : json.id \in Ids(devs[i])})

\* A second find whose callback assigns (x.id = ...) instead of comparing.
C12_MatchDeviceAssigns(devs, json) ==
  LET byId == FirstIndex({i \in 1..Len(devs) : json.id \in Ids(devs[i])})
  IN IF byId # 0 THEN byId
     ELSE IF json.device # Absent THEN FirstIndex(1..Len(devs)) ELSE 0

\* The entity onWSMessage matches json to: its index in devs, or 0.
MatchDevice(devs, json) ==
  LET byId == FirstIndex({i \in 1..Len(devs) : json.id \in Ids(devs[i])})
  IN IF byId # 0 THEN byId
     ELSE IF json.device # Absent
       THEN FirstIndex({i \in 1..Len(devs) : devs[i]["id"] = json.device})
       ELSE 0

\* dev.method(...): an own property of that name (written by an earlier
\* merge) shadows the prototype's method, and calling a string throws.
Callable(dev, method) == method \notin DOMAIN dev

\* GardenaLocation.onWSMessage on the registry devs.  data is
\* [parseable, id, device, hasAttributes, attributes].  Result: the registry after the
\* handler, the matched entity, whether 'wsUpdate' was emitted and with which
\* list, whether the handler threw, and whether processAttributes did.
onWSMessage(devs, data) ==
  LET quiet == [devices |-> devs, matched |-> 0, emitted |-> FALSE,
                updateList |-> <<>>, threw |-> FALSE, mergeThrew |-> FALSE]
  IN IF ~data.parseable THEN [quiet EXCEPT !.threw = TRUE]
     ELSE
       LET m == MatchDevice(devs, data)
       IN IF m = 0 THEN quiet
          ELSE IF ~data.hasAttributes THEN [quiet EXCEPT !.matched = m]
          ELSE IF ~Callable(devs[m], "processAttributes")
            THEN [quiet EXCEPT !.matched = m, !.threw = TRUE]
          ELSE
            LET attributes == ConvertAttributes(<<>>, data.attributes)
                r == processAttributes(devs[m], attributes)
                emits == ~r.threw /\ Callable(r.dev, "emit")
            IN [devices |-> [devs EXCEPT ![m] = r.dev], matched |-> m,
                emitted |-> emits, updateList |-> r.updatedFields,
                threw |-> ~emits, mergeThrew |-> r.threw]

\* =========================================================================
\* Streaming session (GardenaLocation.ts: websocket lifecycle)
\* =========================================================================
NoTimer == [by |-> 0, target |-> 0]   \* a timer handle field that was never set

\* The snapshot the service returns while a session runs: one mower d1 whose
\* MOWER service record s1 points back at it.
SessionSnapshot ==
  [devicesData |-> <<"d1">>,
   hasData |-> TRUE, hasIncluded |-> TRUE,
   included |-> <<[id |-> "s1", type |-> "MOWER", services |-> FALSE, device |-> "d1",
                   hasAttributes |-> TRUE,
                   attributes |-> <<[name |-> "state", value |-> "OK", timestamp |-> "t0"]>>]>>]

\* The record of one async invocation.  kind, pc are its code and position;
\* the rest is history for the properties: cause and via say which transport
\* and which callback started a resetWS run, refreshes and attempts count its
\* updateDevicesList and activateRealtimeUpdates calls, stopInWait says that
\* stop() ran during its cool-down, stopped that stay-alive was false at some
\* point of the run, waitSaw what the stay-alive check saw.
NewProc(kind, pc, cause, via) ==
  [kind |-> kind, pc |-> pc, cause |-> cause, via |-> via,
   refreshes |-> 0, attempts |-> IF kind = "start" THEN 1 ELSE 0,
   stopInWait |-> FALSE, stopped |-> (kind = "reset" /\ ~keepWsAlive), waitSaw |-> "nothing"]

Live(t) == transports[t].state \in {"connecting", "open"}

\* GardenaLocation.closeWS: what it leaves of ws, the transports and the
\* armed timers, given the transports trs and armed timeouts tos.
closeWS(immediatly, trs, tos) ==
  IF ws # NoWs
    THEN [ws |-> NoWs,
          transports |-> [trs EXCEPT ![ws].state = IF immediatly THEN "terminated" ELSE "closed",
                                     ![ws].listeners = FALSE],
          intervals |-> intervals \ {wsPingInterval},
          timeouts |-> tos \ {wsPongTimeout}]
    ELSE [ws |-> NoWs, transports |-> trs, intervals |-> intervals, timeouts |-> tos]

\* A resetWS that refreshes and reconnects without waiting for the
\* cool-down and without reading stay-alive.
C23_resetWSSkipsCooldown(cause, via, trs, tos, pgs) ==
  /\ Len(procs) < MaxProcs
  /\ LET c == closeWS(TRUE, trs, tos)
     IN /\ ws' = c.ws
        /\ transports' = c.transports
        /\ intervals' = c.intervals
        /\ timeouts' = c.timeouts
  /\ last' = [op |-> "stopWSUpdates", n |-> 0, conn |-> cause, to |-> devices.list,
               gen |-> devices.gen]
  /\ procs' = Append(procs, [NewProc("reset", "refresh", cause, via) EXCEPT !.refreshes = 1])
  /\ pings' = pgs
  /\ UNCHANGED <<keepWsAlive, devices, wsPingInterval, wsPongTimeout, crashed,
                 userStopped>>

\* GardenaLocation.resetWS up to its await of the cool-down: teardown, the
\* 'stopWSUpdates' round, and a new pending run of the reconnection path.
\* cause names the transport whose event, watchdog or ping callback called it.
resetWS(cause, via, trs, tos, pgs) ==
  /\ Len(procs) < MaxProcs
  /\ LET c == closeWS(TRUE, trs, tos)
     IN /\ ws' = c.ws
        /\ transports' = c.transports
        /\ intervals' = c.intervals
        /\ timeouts' = c.timeouts
  /\ last' = [op |-> "stopWSUpdates", n |-> 0, conn |-> cause, to |-> devices.list,
               gen |-> devices.gen]
  /\ procs' = Append(procs, NewProc("reset", "wait", cause, via))
  /\ pings' = pgs
  /\ UNCHANGED <<keepWsAlive, devices, wsPingInterval, wsPongTimeout, crashed,
                 userStopped>>

\* What the runtime does when invocation p rejects.  The promise of an
\* external call goes to its caller.  Nobody awaits or catches the promise of
\* resetWS: the rejection is unhandled, which ends the process or is only
\* reported, depending on the runtime's unhandled-rejections mode.
AfterRejection(p) == IF procs[p].kind = "reset" THEN BOOLEAN ELSE {FALSE}

\* activateRealtimeUpdates up to its first await, for the invocation whose
\* record becomes proc: stay-alive on, the active websocket destroyed.
ActivateHead(devs) ==
  /\ keepWsAlive' = TRUE
  /\ LET c == closeWS(TRUE, transports, timeouts)
     IN /\ ws' = c.ws
        /\ transports' = c.transports
        /\ intervals' = c.intervals
        /\ timeouts' = c.timeouts
  /\ devices' = devs
  /\ UNCHANGED <<wsPingInterval, wsPongTimeout, pings, crashed, last>>

\* An activateRealtimeUpdates that never fetches the snapshot itself.
C32_FirstAwaitSkipsFetch(devs) == "negotiate"

\* The await activateRealtimeUpdates reaches first.
FirstAwait(devs) == IF devs.defined THEN "negotiate" ELSE "fetch"

\* External call of activateRealtimeUpdates (start()).
Start ==
  /\ ~crashed
  /\ Len(procs) < MaxProcs
  /\ ActivateHead(devices)
  /\ procs' = Append(procs, NewProc("start", FirstAwait(devices), 0, "call"))
  /\ userStopped' = FALSE

\* External call of deactivateRealtimeUpdates (stop()).
Stop ==
  /\ ~crashed
  /\ keepWsAlive' = FALSE
  /\ LET c == closeWS(FALSE, transports, timeouts)
     IN /\ ws' = c.ws
        /\ transports' = c.transports
        /\ intervals' = c.intervals
        /\ timeouts' = c.timeouts
  /\ userStopped' = \A p \in 1..Len(procs) :
                         procs[p].kind = "start" => procs[p].pc \in {"done", "failed"}
  /\ procs' = [p \in 1..Len(procs) |->
                 [procs[p] EXCEPT !.stopInWait = @ \/ procs[p].pc = "wait",
                                  !.stopped = @ \/ procs[p].pc \notin {"done", "failed"}]]
  /\ UNCHANGED <<devices, wsPingInterval, wsPongTimeout, pings, crashed, last>>

\* updateDevicesList awaited by activateRealtimeUpdates returns.
FetchOk(p) ==
  /\ ~crashed
  /\ procs[p].pc = "fetch"
  /\ devices' = [defined |-> TRUE, list |-> BuildFromSnapshot(SessionSnapshot).devices,
                 gen |-> devices.gen + 1]
  /\ procs' = [procs EXCEPT ![p].pc = "negotiate"]
  /\ UNCHANGED <<keepWsAlive, ws, wsPingInterval, wsPongTimeout, transports, intervals,
                 timeouts, pings, crashed, userStopped, last>>

\* updateDevicesList awaited by activateRealtimeUpdates throws.
FetchFail(p) ==
  /\ ~crashed
  /\ procs[p].pc = "fetch"
  /\ procs' = [procs EXCEPT ![p].pc = "failed"]
  /\ UNCHANGED <<keepWsAlive, ws, devices, wsPingInterval, wsPongTimeout, transports,
                 intervals, timeouts, pings, crashed, userStopped, last>>

\* The websocket URL arrives: new WebSocket(url) and the five listeners.
NegotiateOk(p) ==
  /\ ~crashed
  /\ procs[p].pc = "negotiate"
  /\ Len(transports) < MaxTransports
  /\ transports' = Append(transports, [state |-> "connecting", listeners |-> TRUE,
                                       bornStopped |-> userStopped, started |-> FALSE])
  /\ ws' = Len(transports) + 1
  /\ procs' = [procs EXCEPT ![p].pc = "done"]
  /\ UNCHANGED <<keepWsAlive, devices, wsPingInterval, wsPongTimeout, intervals,
                 timeouts, pings, crashed, userStopped, last>>

\* The POST for the websocket URL fails (or does not answer 201).
NegotiateFail(p) ==
  /\ ~crashed
  /\ procs[p].pc = "negotiate"
  /\ procs' = [procs EXCEPT ![p].pc = "failed"]
  /\ crashed' \in AfterRejection(p)
  /\ UNCHANGED <<keepWsAlive, ws, devices, wsPingInterval, wsPongTimeout, transports,
                 intervals, timeouts, pings, userStopped, last>>

\* A resetWS that reconnects after the cool-down whatever stay-alive says.
C4_StillWantedIgnoresStop == TRUE

\* The stay-alive check resetWS makes when its cool-down is over.
StillWanted == keepWsAlive

\* new WebSocket(url) throws.
ConstructFail(p) ==
  /\ ~crashed
  /\ procs[p].pc = "negotiate"
  /\ procs' = [procs EXCEPT ![p].pc = "failed"]
  /\ crashed' \in AfterRejection(p)
  /\ UNCHANGED <<keepWsAlive, ws, devices, wsPingInterval, wsPongTimeout, transports,
                 intervals, timeouts, pings, userStopped, last>>

\* resetWS after its cool-down of COOLDOWN ms: the stay-alive check.
WaitEnd(p) ==
  /\ ~crashed
  /\ COOLDOWN > 0
  /\ procs[p].pc = "wait"
  /\ procs' = IF StillWanted
              THEN [procs EXCEPT ![p].pc = "refresh", ![p].refreshes = @ + 1,
                                 ![p].waitSaw = IF keepWsAlive THEN "alive" ELSE "stopped"]
              ELSE [procs EXCEPT ![p].pc = "done",
                                 ![p].waitSaw = IF keepWsAlive THEN "alive" ELSE "stopped"]
  /\ UNCHANGED <<keepWsAlive, ws, devices, wsPingInterval, wsPongTimeout, transports,
                 intervals, timeouts, pings, crashed, userStopped, last>>

\* A refresh after which this.devices still holds the entities it held.
C33_RefreshOkKeepsEntities(p) ==
  /\ ~crashed
  /\ procs[p].pc = "refresh"
  /\ ActivateHead(devices)
  /\ procs' = [procs EXCEPT ![p].pc = "negotiate", ![p].attempts = @ + 1]
  /\ UNCHANGED userStopped

\* resetWS: updateDevicesList returned, activateRealtimeUpdates is called.
RefreshOk(p) ==
  /\ ~crashed
  /\ procs[p].pc = "refresh"
  /\ ActivateHead([defined |-> TRUE, list |-> BuildFromSnapshot(SessionSnapshot).devices,
                 gen |-> devices.gen + 1])
  /\ procs' = [procs EXCEPT ![p].pc = "negotiate", ![p].attempts = @ + 1]
  /\ UNCHANGED userStopped

\* resetWS: updateDevicesList threw; the rejection of resetWS is handled nowhere.
RefreshFail(p) ==
  /\ ~crashed
  /\ procs[p].pc = "refresh"
  /\ procs' = [procs EXCEPT ![p].pc = "failed"]
  /\ crashed' \in AfterRejection(p)
  /\ UNCHANGED <<keepWsAlive, ws, devices, wsPingInterval, wsPongTimeout, transports,
                 intervals, timeouts, pings, userStopped, last>>

\* 'open' event: onWSOpen emits 'startWSUpdates' and arms the heartbeat.
TransportOpen(t) ==
  /\ ~crashed
  /\ transports[t].state = "connecting" /\ transports[t].listeners
  /\ transports' = [transports EXCEPT ![t].state = "open", ![t].started = TRUE]
  /\ last' = [op |-> "startWSUpdates", n |-> 0, conn |-> t, to |-> devices.list,
               gen |-> devices.gen]
  /\ wsPingInterval' = t
  /\ intervals' = intervals \cup {t}
  /\ UNCHANGED <<keepWsAlive, ws, devices, wsPongTimeout, timeouts, pings, procs,
                 crashed, userStopped>>

\* 'error' event: onWSError.
TransportError(t) ==
  /\ ~crashed
  /\ Live(t) /\ transports[t].listeners
  /\ resetWS(t, "error", [transports EXCEPT ![t].state = "errored"], timeouts, pings)

\* 'close' event: onWSClose.
TransportClose(t) ==
  /\ ~crashed
  /\ transports[t].state \in {"connecting", "open", "errored"} /\ transports[t].listeners
  /\ resetWS(t, "close", [transports EXCEPT ![t].state = "closed"], timeouts, pings)

\* The setInterval callback armed by onWSOpen of transport i.  The watchdog
\* it armed PING_INTERVAL ago has fired or was cleared (PONG_TIMEOUT is
\* shorter).  this.ws.ping throws when ws is undefined or still connecting,
\* and nothing catches it.
Tick(i) ==
  /\ ~crashed
  /\ PONG_TIMEOUT < PING_INTERVAL
  /\ i \in intervals
  /\ \A w \in timeouts : w.by # i
  /\ LET w == [by |-> i, target |-> ws]
     IN /\ timeouts' = timeouts \cup {w}
        /\ wsPongTimeout' = w
  /\ IF ws = NoWs \/ transports[ws].state = "connecting"
       THEN crashed' = TRUE /\ pings' = pings
       ELSE crashed' = FALSE /\ pings' = pings \cup {ws}
  /\ UNCHANGED <<keepWsAlive, ws, devices, wsPingInterval, transports, intervals,
                 procs, userStopped, last>>

\* The watchdog setTimeout callback: no pong in time.
Watchdog(w) ==
  /\ ~crashed
  /\ w \in timeouts
  /\ resetWS(w.target, "watchdog", transports, timeouts \ {w}, pings)

\* 'pong' event: onWSPong.
Pong(t) ==
  /\ ~crashed
  /\ transports[t].state = "open" /\ transports[t].listeners
  /\ timeouts' = timeouts \ {wsPongTimeout}
  /\ UNCHANGED <<keepWsAlive, ws, devices, wsPingInterval, wsPongTimeout, transports,
                 intervals, pings, procs, crashed, userStopped, last>>

\* The callback given to ws.ping is called without an error.
PingSent(t) ==
  /\ ~crashed
  /\ t \in pings
  /\ pings' = pings \ {t}
  /\ UNCHANGED <<keepWsAlive, ws, devices, wsPingInterval, wsPongTimeout, transports,
                 intervals, timeouts, procs, crashed, userStopped, last>>

\* The callback given to ws.ping is called with an error.  The callback is
\* no listener: removeAllListeners does not cancel it, and a write still
\* pending when the socket is destroyed completes with an error.
PingFailed(t) ==
  /\ ~crashed
  /\ t \in pings
  /\ resetWS(t, "ping", transports, timeouts, pings \ {t})

Init ==
  /\ keepWsAlive = FALSE
  /\ ws = NoWs
  /\ devices = [defined |-> FALSE, list |-> <<>>, gen |-> 0]
  /\ wsPingInterval = 0
  /\ wsPongTimeout = NoTimer
  /\ transports = <<>>
  /\ intervals = {}
  /\ timeouts = {}
  /\ pings = {}
  /\ procs = <<>>
  /\ crashed = FALSE
  /\ userStopped = FALSE
  /\ last = [op |-> "none", n |-> 0]

SomeFetchOk == \E p \in 1..Len(procs) : FetchOk(p)
SomeFetchFail == \E p \in 1..Len(procs) : FetchFail(p)
SomeNegotiateOk == \E p \in 1..Len(procs) : NegotiateOk(p)
SomeNegotiateFail == \E p \in 1..Len(procs) : NegotiateFail(p)
SomeConstructFail == \E p \in 1..Len(procs) : ConstructFail(p)
SomeWaitEnd == \E p \in 1..Len(procs) : WaitEnd(p)
SomeRefreshOk == \E p \in 1..Len(procs) : RefreshOk(p)
SomeRefreshFail == \E p \in 1..Len(procs) : RefreshFail(p)
SomeTransportOpen == \E t \in 1..Len(transports) : TransportOpen(t)
SomeTransportError == \E t \in 1..Len(transports) : TransportError(t)
SomeTransportClose == \E t \in 1..Len(transports) : TransportClose(t)
SomePong == \E t \in 1..Len(transports) : Pong(t)
SomePingSent == \E t \in 1..Len(transports) : PingSent(t)
SomePingFailed == \E t \in 1..Len(transports) : PingFailed(t)
SomeTick == \E i \in intervals : Tick(i)
SomeWatchdog == \E w \in timeouts : Watchdog(w)

Next ==
  \/ Start
  \/ Stop
  \/ SomeFetchOk
  \/ SomeFetchFail
  \/ SomeNegotiateOk
  \/ SomeNegotiateFail
  \/ SomeConstructFail
  \/ SomeWaitEnd
  \/ SomeRefreshOk
  \/ SomeRefreshFail
  \/ SomeTransportOpen
  \/ SomeTransportError
  \/ SomeTransportClose
  \/ SomePong
  \/ SomePingSent
  \/ SomePingFailed
  \/ SomeTick
  \/ SomeWatchdog

Spec == Init /\ [][Next]_vars

\* The session when stop() is never called and every collaborator call
\* (snapshot request, endpoint negotiation, socket construction) succeeds.
\* Timers fire and pending requests return, so the continuations of the
\* async functions are weakly fair; transport events are not.
NextLive ==
  \/ Start
  \/ SomeFetchOk
  \/ SomeNegotiateOk
  \/ SomeWaitEnd
  \/ SomeRefreshOk
  \/ SomeTransportOpen
  \/ SomeTransportError
  \/ SomeTransportClose
  \/ SomePong
  \/ SomePingSent
  \/ SomePingFailed
  \/ SomeTick
  \/ SomeWatchdog

LiveSpec ==
  /\ Init
  /\ [][NextLive]_vars
  /\ WF_vars(SomeFetchOk)
  /\ WF_vars(SomeNegotiateOk)
  /\ WF_vars(SomeWaitEnd)
  /\ WF_vars(SomeRefreshOk)

\* =========================================================================
\* The registry alone: snapshots (SnapSpec) and inbound messages (MsgSpec)
\* =========================================================================
\* Sequences over S of length at most n.
RECURSIVE SeqsUpTo(_, _)
SeqsUpTo(S, n) ==
  IF n = 0 THEN {<<>>}
  ELSE LET shorter == SeqsUpTo(S, n - 1)
       IN shorter \cup {Append(q, x) : q \in {r \in shorter : Len(r) = n - 1}, x \in S}

\* Characteristic records of the payloads tried: a device or service id, a
\* supported or an unsupported type, with or without a services
\* relationship, a device relationship and attributes.
SnapAttributes ==
  {<<[name |-> "name", value |-> "v1", timestamp |-> Absent]>>,
   <<[name |-> "name", value |-> "v2", timestamp |-> "t1"]>>,
   <<[name |-> "serial", value |-> "v3", timestamp |-> Absent]>>}

SnapRecords ==
  [id : {"d1", "d2"}, type : {"MOWER", "COMMON"}, services : BOOLEAN,
   device : {Absent, "d1", "d2"}, hasAttributes : {TRUE}, attributes : SnapAttributes]
  \cup [id : {"d1", "d2"}, type : {"MOWER", "COMMON"}, services : BOOLEAN,
        device : {Absent, "d1", "d2"}, hasAttributes : {FALSE}, attributes : {<<>>}]

Snapshots ==
  [hasData : {TRUE}, devicesData : SeqsUpTo({"d1", "d2"}, MaxLinked),
   hasIncluded : {TRUE}, included : SeqsUpTo(SnapRecords, MaxIncluded)]
  \cup [hasData : {FALSE}, devicesData : {<<>>},
        hasIncluded : {TRUE}, included : SeqsUpTo(SnapRecords, 1)]
  \cup [hasData : {TRUE}, devicesData : SeqsUpTo({"d1", "d2"}, MaxLinked),
        hasIncluded : {FALSE}, included : {<<>>}]

\* updateDevicesList with the request answered by res (the request itself
\* failing is FetchFail/RefreshFail of the session).
UpdateDevicesList(res) ==
  /\ \E r \in {BuildFromSnapshot(res)} :
        /\ devices' = IF r.threw THEN devices
                      ELSE [defined |-> TRUE, list |-> r.devices, gen |-> devices.gen + 1]
        /\ last' = [op |-> "update", n |-> last.n + 1, input |-> res, threw |-> r.threw]
  /\ UNCHANGED sessionVars

SnapNext == last.n < MaxUpdates /\ \E res \in Snapshots : UpdateDevicesList(res)

SnapSpec == Init /\ [][SnapNext]_vars

\* The registry MsgSpec starts from: two mowers as updateDevicesList builds
\* them, d1 with service s1 and d2 whose service record carries the id d1,
\* so that a message id can equal an id of both.
MsgSnapshot ==
  [hasData |-> TRUE, devicesData |-> <<"d1", "d2">>, hasIncluded |-> TRUE,
   included |->
     <<[id |-> "s1", type |-> "MOWER", services |-> FALSE, device |-> "d1",
        hasAttributes |-> TRUE,
        attributes |-> <<[name |-> "activity", value |-> "v0", timestamp |-> "t0"],
                         [name |-> "name", value |-> "v0", timestamp |-> Absent]>>],
       [id |-> "d1", type |-> "MOWER", services |-> FALSE, device |-> "d2",
        hasAttributes |-> TRUE,
        attributes |-> <<[name |-> "activity", value |-> "v0", timestamp |-> "t0"]>>]>>]

\* Attribute names of the messages tried: a declared field with a declared
\* timestamp field, that timestamp field, a declared field without one (the
\* service sends rfLinkState with a timestamp), the name its timestamp would
\* get, a method, the getter, and an unknown name.
AttrNames ==
  {"activity", "activityTs", "rfLinkState", "rfLinkStateTs", "emit", "error", "valve"}

RawAttrs == [name : AttrNames, value : {"v1"}, timestamp : {Absent, "t1"}]

\* JSON objects have distinct keys.
Deltas ==
  {q \in SeqsUpTo(RawAttrs, MaxDeltaLen) :
     \A i, j \in 1..Len(q) : i # j => q[i].name # q[j].name}

\* (json.id, json.relationships.device.data.id) of the messages tried: an
\* id of both entities, a secondary id, an unknown id, each without a device
\* relationship or with one that names an entity or nothing known.
Routes ==
  {<<"d1", Absent>>, <<"d1", "d2">>, <<"s1", "d2">>,
   <<"zz", Absent>>, <<"zz", "d2">>, <<"zz", "yy">>}

Messages ==
  {[parseable |-> TRUE, id |-> r[1], device |-> r[2], hasAttributes |-> TRUE,
    attributes |-> q] : r \in Routes, q \in Deltas}
  \cup {[parseable |-> TRUE, id |-> r[1], device |-> r[2], hasAttributes |-> FALSE,
         attributes |-> <<>>] : r \in Routes}
  \cup {[parseable |-> FALSE, id |-> Absent, device |-> Absent,
         hasAttributes |-> FALSE, attributes |-> <<>>]}

\* The session after start() fetched MsgSnapshot, connected and got 'open'.
MsgInit ==
  /\ keepWsAlive = TRUE
  /\ ws = 1
  /\ devices = [defined |-> TRUE, list |-> BuildFromSnapshot(MsgSnapshot).devices, gen |-> 1]
  /\ wsPingInterval = 1
  /\ wsPongTimeout = NoTimer
  /\ transports = <<[state |-> "open", listeners |-> TRUE, bornStopped |-> FALSE,
                     started |-> TRUE]>>
  /\ intervals = {1}
  /\ timeouts = {}
  /\ pings = {}
  /\ procs = <<[NewProc("start", "done", 0, "call") EXCEPT !.stopped = FALSE]>>
  /\ crashed = FALSE
  /\ userStopped = FALSE
  /\ last = [op |-> "none", n |-> 0]

\* The 'message' listener of the current transport runs onWSMessage on
\* data.  What onWSMessage throws leaves the listener and the emit of the
\* transport with nothing to catch it.
Message(data) ==
  /\ ~crashed
  /\ ws # NoWs /\ transports[ws].state = "open" /\ transports[ws].listeners
  /\ \E r \in {onWSMessage(devices.list, data)} :
        /\ devices' = [devices EXCEPT !.list = r.devices]
        /\ last' = [op |-> "message", n |-> last.n + 1, input |-> data,
                    before |-> devices.list, gen |-> devices.gen, matched |-> r.matched,
                    emitted |-> r.emitted, updateList |-> r.updateList,
                    threw |-> r.threw, mergeThrew |-> r.mergeThrew]
        /\ crashed' = r.threw
  /\ UNCHANGED <<keepWsAlive, ws, wsPingInterval, wsPongTimeout, transports,
                 intervals, timeouts, pings, procs, userStopped>>

MsgNext == last.n < MaxMessages /\ \E data \in Messages : Message(data)

MsgSpec == MsgInit /\ [][MsgNext]_vars

\* One mower d1 with service s1, in every run state and with or without a
\* recorded error code.
MowerStates == {"OK", "WARNING", "ERROR", "UNAVAILABLE"}
ErrorCodes == {"NO_MESSAGE", "OUTSIDE_WORKING_AREA"}

MowerAttrs ==
  {sa \o ca :
     sa \in {<<>>} \cup {<<[name |-> "state", value |-> v, timestamp |-> "t0"]>> :
                            v \in MowerStates},
     ca \in {<<>>} \cup {<<[name |-> "lastErrorCode", value |-> c, timestamp |-> "t0"]>> :
                            c \in ErrorCodes}}

MowerSnapshot(attributes) ==
  [hasData |-> TRUE, devicesData |-> <<"d1">>, hasIncluded |-> TRUE,
   included |-> <<[id |-> "s1", type |-> "MOWER", services |-> FALSE, device |-> "d1",
                   hasAttributes |-> TRUE, attributes |-> attributes]>>]

MowerMessages ==
  {[parseable |-> TRUE, id |-> "s1", device |-> Absent, hasAttributes |-> TRUE,
    attributes |-> q] : q \in MowerAttrs \ {<<>>}}

MowerInit ==
  /\ keepWsAlive = TRUE
  /\ ws = 1
  /\ \E q \in MowerAttrs :
       devices = [defined |-> TRUE, list |-> BuildFromSnapshot(MowerSnapshot(q)).devices,
                  gen |-> 1]
  /\ wsPingInterval = 1
  /\ wsPongTimeout = NoTimer
  /\ transports = <<[state |-> "open", listeners |-> TRUE, bornStopped |-> FALSE,
                     started |-> TRUE]>>
  /\ intervals = {1}
  /\ timeouts = {}
  /\ pings = {}
  /\ procs = <<[NewProc("start", "done", 0, "call") EXCEPT !.stopped = FALSE]>>
  /\ crashed = FALSE
  /\ userStopped = FALSE
  /\ last = [op |-> "none", n |-> 0]

\* The application reads devices[i].error; what the getter throws goes to
\* the reader.
ReadError(i) ==
  /\ ~crashed
  /\ \E r \in {error(devices.list[i], MaxStack)} :
       last' = [op |-> "error", n |-> last.n + 1, input |-> i, before |-> devices.list,
                value |-> r.value, threw |-> r.threw]
  /\ UNCHANGED <<devices, sessionVars>>

SomeReadError == \E i \in 1..Len(devices.list) : ReadError(i)
SomeMowerMessage == \E data \in MowerMessages : Message(data)

MowerNext ==
  \/ last.n < MaxReads /\ SomeReadError
  \/ last.n < MaxReads /\ SomeMowerMessage

MowerSpec == MowerInit /\ [][MowerNext]_vars

\* Answers of the service to the snapshot request of getDevices: one mower,
\* two mowers, no linked device, a linked device of no supported type, and a
\* payload without data.
GetSnapshots ==
  {SessionSnapshot, MsgSnapshot,
   [hasData |-> TRUE, devicesData |-> <<>>, hasIncluded |-> TRUE, included |-> <<>>],
   [hasData |-> TRUE, devicesData |-> <<"d1">>, hasIncluded |-> TRUE, included |-> <<>>],
   [hasData |-> FALSE, devicesData |-> <<>>, hasIncluded |-> TRUE, included |-> <<>>]}

C19_GetDevicesAlwaysFetches ==
  /\ ~crashed
  /\ Len(procs) < MaxProcs
  /\ procs' = Append(procs, [NewProc("getDevices", "getFetch", 0, "call")
                               EXCEPT !.refreshes = 1])
  /\ UNCHANGED <<keepWsAlive, ws, devices, wsPingInterval, wsPongTimeout, transports,
                 intervals, timeouts, pings, crashed, userStopped, last>>

\* External call of getDevices up to its await, or to its return when the
\* registry is there (an empty array is there too).
GetDevices ==
  /\ ~crashed
  /\ Len(procs) < MaxProcs
  /\ IF devices.defined
       THEN /\ procs' = Append(procs, NewProc("getDevices", "done", 0, "call"))
            /\ last' = [op |-> "getDevices", n |-> last.n + 1, returned |-> devices.list,
                        threw |-> FALSE]
       ELSE /\ procs' = Append(procs, [NewProc("getDevices", "getFetch", 0, "call")
                                         EXCEPT !.refreshes = 1])
            /\ last' = last
  /\ UNCHANGED <<keepWsAlive, ws, devices, wsPingInterval, wsPongTimeout, transports,
                 intervals, timeouts, pings, crashed, userStopped>>

\* The snapshot request of getDevices is answered by res: updateDevicesList
\* builds the registry and getDevices returns it, or updateDevicesList throws
\* and getDevices rejects.
GetFetchOk(p, res) ==
  /\ ~crashed
  /\ procs[p].kind = "getDevices" /\ procs[p].pc = "getFetch"
  /\ \E r \in {BuildFromSnapshot(res)} :
       IF r.threw
         THEN /\ devices' = devices
              /\ procs' = [procs EXCEPT ![p].pc = "failed"]
              /\ last' = [op |-> "getDevices", n |-> last.n + 1, returned |-> <<>>,
                          threw |-> TRUE]
         ELSE /\ devices' = [defined |-> TRUE, list |-> r.devices, gen |-> devices.gen + 1]
              /\ procs' = [procs EXCEPT ![p].pc = "done"]
              /\ last' = [op |-> "getDevices", n |-> last.n + 1, returned |-> r.devices,
                          threw |-> FALSE]
  /\ UNCHANGED <<keepWsAlive, ws, wsPingInterval, wsPongTimeout, transports,
                 intervals, timeouts, pings, crashed, userStopped>>

\* The snapshot request of getDevices fails.
GetFetchFail(p) ==
  /\ ~crashed
  /\ procs[p].kind = "getDevices" /\ procs[p].pc = "getFetch"
  /\ procs' = [procs EXCEPT ![p].pc = "failed"]
  /\ last' = [op |-> "getDevices", n |-> last.n + 1, returned |-> <<>>, threw |-> TRUE]
  /\ UNCHANGED <<keepWsAlive, ws, devices, wsPingInterval, wsPongTimeout, transports,
                 intervals, timeouts, pings, crashed, userStopped>>

SomeGetFetchOk == \E p \in 1..Len(procs), res \in GetSnapshots : GetFetchOk(p, res)
SomeGetFetchFail == \E p \in 1..Len(procs) : GetFetchFail(p)

GetNext ==
  \/ GetDevices
  \/ SomeGetFetchOk
  \/ SomeGetFetchFail

GetSpec == Init /\ [][GetNext]_vars

\* ---------------------------------------------------------------------
\* ReconnectSpec: an open connection that receives messages, dies and is
\* reopened by the reconnection path, every collaborator call succeeding.
\* ---------------------------------------------------------------------

\* The session after start() fetched SessionSnapshot, connected and got 'open'.
ReconnectInit ==
  /\ keepWsAlive = TRUE
  /\ ws = 1
  /\ devices = [defined |-> TRUE, list |-> BuildFromSnapshot(SessionSnapshot).devices,
                gen |-> 1]
  /\ wsPingInterval = 1
  /\ wsPongTimeout = NoTimer
  /\ transports = <<[state |-> "open", listeners |-> TRUE, bornStopped |-> FALSE,
                     started |-> TRUE]>>
  /\ intervals = {1}
  /\ timeouts = {}
  /\ pings = {}
  /\ procs = <<[NewProc("start", "done", 0, "call") EXCEPT !.stopped = FALSE]>>
  /\ crashed = FALSE
  /\ userStopped = FALSE
  /\ last = [op |-> "none", n |-> 0]

\* Messages for mower d1 that name one attribute: a state field of the mower,
\* an unknown name, or one of the fields the constructor sets, with or
\* without a timestamp.
ReconnectMessages ==
  {[parseable |-> TRUE, id |-> "d1", device |-> Absent, hasAttributes |-> TRUE,
    attributes |-> <<[name |-> a, value |-> "v1", timestamp |-> t]>>] :
     a \in {"state", "activity", "valve", "id", "serviceId", "connection"},
     t \in {Absent, "t1"}}

SomeReconnectMessage == \E data \in ReconnectMessages : Message(data)

ReconnectNext ==
  \/ last.n < MaxMessages /\ SomeReconnectMessage
  \/ SomeTransportError
  \/ SomeTransportClose
  \/ SomeWaitEnd
  \/ SomeRefreshOk
  \/ SomeNegotiateOk
  \/ SomeTransportOpen

ReconnectSpec == ReconnectInit /\ [][ReconnectNext]_vars

\* =========================================================================
\* Properties of the streaming session
\* =========================================================================
Tids == 1..Len(transports)
Pids == 1..Len(procs)
ResetRuns(t) == {p \in Pids : procs[p].kind = "reset" /\ procs[p].cause = t}
Finished(p) == procs[p].pc \in {"done", "failed"}

\* C1: in every reachable state at most one transport that was opened and is
\* not yet terminated or closed exists for the location.
C1_AtMostOneLiveTransport ==
  Cardinality({t \in Tids : Live(t)}) <= 1

\* C2: once stop() was called (no external start() in flight or following),
\* stay-alive stays false, no transport is opened and no handle is held.
C2_StopIsTerminal ==
  userStopped =>
    /\ keepWsAlive = FALSE
    /\ ws = NoWs
    /\ \A t \in Tids : ~transports[t].bornStopped

\* C3: for a transport whose close started the reconnection path, with
\* stay-alive true throughout, the runs of that path make exactly one
\* snapshot refresh and then exactly one connection attempt: never more than
\* one of each, and never none once the run is past the step (a run in which
\* a collaborator call failed is not asked for its count).
C3_OneRefreshOneAttempt ==
  \A t \in Tids :
    LET R == ResetRuns(t)
    IN ((\E p \in R : procs[p].via = "close") /\ (\A p \in R : ~procs[p].stopped)) =>
         /\ Cardinality({p \in R : procs[p].refreshes > 0}) <= 1
         /\ Cardinality({p \in R : procs[p].attempts > 0}) <= 1
         /\ \A p \in R :
              /\ procs[p].refreshes <= 1 /\ procs[p].attempts <= 1
              /\ procs[p].pc \notin {"wait", "failed"} => procs[p].refreshes = 1
              /\ procs[p].pc \in {"negotiate", "done"} => procs[p].attempts = 1

C5_OneResetPerDeadConnection ==
  \A t \in Tids :
    (\E p \in ResetRuns(t) : procs[p].via = "watchdog") =>
      Cardinality(ResetRuns(t)) <= 1

\* C6: when the connection died while stay-alive is true, stop() is never
\* called and the collaborator calls succeed, a transport is opened again
\* (or the model's budget of transports is used up).
C6_DeathLeadsToNewTransport ==
  \A p \in 1..MaxProcs :
    (p <= Len(procs) /\ procs[p].kind = "reset" /\ procs[p].pc = "wait" /\ keepWsAlive)
      ~> (ws # NoWs \/ Len(transports) = MaxTransports)

\* =========================================================================
\* Properties of the attribute merge and the registry
\* =========================================================================
Declared == DeviceFields \cup MowerFields
MatchedMessage == last.op = "message" /\ last.matched > 0 /\ last.input.hasAttributes
DeltaNames == [i \in 1..Len(last.input.attributes) |-> last.input.attributes[i].name]
IsDeclared(name) == name \in Declared

\* C7: the merge of a message's delta into the matched entity ends normally,
\* creates or changes only properties the entity declares, and the list it
\* returns is the delta's names that the entity declares, in delta order.
C7_OnlyDeclaredFieldsChangedAndReported ==
  MatchedMessage =>
    LET before == last.before[last.matched]
        after == devices.list[last.matched]
    IN /\ ~last.mergeThrew
       /\ \A f \in DOMAIN after :
            (f \notin DOMAIN before \/ after[f] # before[f]) => f \in Declared
       /\ last.updateList = SelectSeq(DeltaNames, IsDeclared)

\* C8: merging the delta of the last message once more into the matched
\* entity leaves every property as the first merge left it and returns the
\* list the first merge returned.
C8_MergeIdempotent ==
  MatchedMessage =>
    LET after == devices.list[last.matched]
        again == processAttributes(after, ConvertAttributes(<<>>, last.input.attributes))
    IN /\ again.dev = after
       /\ again.updatedFields = last.updateList
       /\ again.threw = last.mergeThrew

\* C9: a message leaves every other entity as it was; on the matched entity
\* every property the delta does not name is as it was, but for the declared
\* timestamp field of a named field whose entry carries a timestamp; and a
\* named declared field whose entry carries no timestamp has the entry's
\* value while its timestamp field is as it was.
C9_UnnamedFieldsUnchanged ==
  last.op = "message" =>
    /\ Len(devices.list) = Len(last.before)
    /\ \A i \in 1..Len(last.before) :
         i # last.matched => devices.list[i] = last.before[i]
    /\ MatchedMessage =>
         LET before == last.before[last.matched]
             after == devices.list[last.matched]
             delta == last.input.attributes
             named == {delta[i].name : i \in 1..Len(delta)}
             stamped == {delta[i].name \o "Ts" : i \in {j \in 1..Len(delta) :
                            delta[j].timestamp # Absent}} \cap Declared
         IN /\ \A f \in (DOMAIN after) \ (named \cup stamped) :
                 f \in DOMAIN before /\ after[f] = before[f]
            /\ \A i \in 1..Len(delta) :
                 (delta[i].name \in Declared /\ delta[i].timestamp = Absent) =>
                   /\ after[delta[i].name] = delta[i].value
                   /\ (delta[i].name \o "Ts") \in DOMAIN before =>
                        after[delta[i].name \o "Ts"] = before[delta[i].name \o "Ts"]
                   /\ (delta[i].name \o "Ts") \notin DOMAIN before =>
                        (delta[i].name \o "Ts") \notin DOMAIN after

\* The linked device id has a characteristic record of a supported type.
HasSupportedRecord(id) ==
  \E k \in 1..Len(last.input.included) :
    /\ LinkedTo(last.input.included[k], id)
    /\ last.input.included[k].type \in supportedDeviceTypes

\* C10: a refresh from a snapshot that has the relationship and the
\* inclusion member succeeds, and the registry then holds one entity for
\* each linked device id that has a record of a supported type, in the order
\* of the linked ids, and nothing else.
C10_OneEntityPerSupportedLinkedId ==
  (last.op = "update" /\ last.input.hasData /\ last.input.hasIncluded) =>
    /\ ~last.threw
    /\ devices.defined
    /\ [i \in 1..Len(devices.list) |-> devices.list[i]["id"]]
         = SelectSeq(last.input.devicesData, HasSupportedRecord)

\* C11: a refresh from a well-shaped snapshot in which some linked device id
\* has no record of a supported type succeeds all the same, and the registry
\* holds the entities of the linked ids that have one.
C11_UnsupportedDeviceSkipped ==
  (/\ last.op = "update" /\ last.input.hasData /\ last.input.hasIncluded
   /\ \E k \in 1..Len(last.input.devicesData) :
        ~HasSupportedRecord(last.input.devicesData[k])) =>
    /\ ~last.threw
    /\ devices.defined
    /\ Len(devices.list) = Len(SelectSeq(last.input.devicesData, HasSupportedRecord))
    /\ \A id \in {last.input.devicesData[k] : k \in 1..Len(last.input.devicesData)} :
         HasSupportedRecord(id) =>
           \E i \in 1..Len(devices.list) : devices.list[i]["id"] = id

\* The last message names no entity: its id is no entity's primary or
\* secondary id and its device relationship, if any, no entity's primary id.
UnknownMessage ==
  /\ last.op = "message" /\ last.input.parseable
  /\ \A i \in 1..Len(last.before) :
       /\ last.input.id \notin {last.before[i]["id"], last.before[i]["serviceId"]}
       /\ last.input.device # Absent => last.input.device # last.before[i]["id"]

C13_ErrorIsLastErrorCodeWhenFaulty ==
  last.op = "error" =>
    LET dev == last.before[last.input]
    IN /\ ~last.threw
       /\ devices.list = last.before
       /\ last.value =
            IF dev["state"] \in {"WARNING", "ERROR"} /\ dev["lastErrorCode"] # Undefined
              THEN dev["lastErrorCode"] ELSE "null"

\* C14: 'wsUpdate' is emitted only with a non-empty list of updated fields,
\* and not at all for a matched message whose delta names no declared field.
C14_UpdateEmittedOnlyForChanges ==
  last.op = "message" =>
    /\ last.emitted => last.updateList # <<>>
    /\ (MatchedMessage /\ SelectSeq(DeltaNames, IsDeclared) = <<>>) => ~last.emitted

\* C15: after a message that is no JSON the session is as it was: the
\* transport is held, open and listened to, the heartbeat interval is armed,
\* no watchdog was armed, stay-alive is true, no reconnection run exists, the
\* entities are unchanged, and the process runs on.
C15_UnparseableMessageKeepsConnection ==
  (last.op = "message" /\ ~last.input.parseable) =>
    /\ last.threw
    /\ ~crashed
    /\ keepWsAlive
    /\ ws = 1 /\ transports[1].state = "open" /\ transports[1].listeners
    /\ intervals = {1} /\ timeouts = {}
    /\ \A p \in 1..Len(procs) : procs[p].kind # "reset"
    /\ devices.list = last.before

\* C16: the step in which a start() fails at the endpoint negotiation or the
\* socket construction leaves no transport handle and no armed heartbeat or
\* watchdog timer, and starts no reconnection run.
C16_SetupFailureLeavesNothing ==
  [][\A p \in 1..Len(procs) :
       (procs[p].kind = "start" /\ procs[p].pc = "negotiate" /\ procs'[p].pc = "failed") =>
         /\ ws' = NoWs
         /\ intervals' = {} /\ timeouts' = {}
         /\ Len(procs') = Len(procs)]_vars

\* C17: every step in which a connection is reported dead ('error', 'close',
\* watchdog expiry, ping completed with an error) starts one run of resetWS,
\* lets no exception escape and fails no pending start(); and a heartbeat
\* tick while a transport is held lets no exception escape either (a probe
\* that cannot be sent is reported to the ping callback).
C17_EveryDeathResets ==
  [][/\ (SomeTransportError \/ SomeTransportClose \/ SomeWatchdog \/ SomePingFailed) =>
          /\ Len(procs') = Len(procs) + 1
          /\ procs'[Len(procs')].kind = "reset" /\ procs'[Len(procs')].pc = "wait"
          /\ \A p \in 1..Len(procs) : procs'[p].pc = procs[p].pc
          /\ ~crashed'
     /\ (SomeTick /\ ws # NoWs) => ~crashed']_vars

\* C18: no run of resetWS ends in a rejection: its callers neither await nor
\* catch it, so a rejected run is an unhandled rejection.
C18_BackgroundFailureInvisible ==
  \A p \in Pids : procs[p].kind = "reset" => procs[p].pc # "failed"

\* C19: a getDevices call made while the registry is there returns it and
\* requests nothing; a call made while it is not there makes one request; and
\* a request that fails leaves the registry as it was, so that the call
\* after a failed first fetch requests again.
C19_FetchOnlyWhileUnpopulated ==
  [][/\ (Len(procs') = Len(procs) + 1 /\ procs'[Len(procs')].kind = "getDevices") =>
          LET call == procs'[Len(procs')]
          IN IF devices.defined
               THEN /\ call.refreshes = 0 /\ call.pc = "done"
                    /\ last'.n = last.n + 1 /\ ~last'.threw
                    /\ last'.returned = devices.list
                    /\ devices' = devices
               ELSE call.refreshes = 1 /\ call.pc = "getFetch"
     /\ \A p \in 1..Len(procs) :
          (procs[p].pc = "getFetch" /\ procs'[p].pc = "failed") => devices' = devices
     /\ \A p \in 1..Len(procs) : procs'[p].refreshes = procs[p].refreshes]_vars

\* C19 witness: a first call whose fetch failed, a second that fetched, and a
\* third that returned the registry without a request.
C19_Witness ==
  /\ Len(procs) = 3
  /\ procs[1].kind = "getDevices" /\ procs[1].pc = "failed"
  /\ procs[2].pc = "done" /\ procs[2].refreshes = 1
  /\ procs[3].pc = "done" /\ procs[3].refreshes = 0
  /\ devices.defined /\ devices.list # <<>>

\* C20: the activateRealtimeUpdates that a reconnection path calls when its
\* cool-down and refresh are over ends no live transport other than the one
\* the path was started for: a transport opened meanwhile stays open.
C20_ResetSparesNewerTransport ==
  [][\A t \in 1..Len(transports) :
       (Live(t) /\ transports'[t].state \notin {"connecting", "open"}) =>
         \A p \in 1..Len(procs) :
           (procs[p].kind = "reset" /\ procs[p].pc = "refresh"
            /\ procs'[p].pc = "negotiate") => procs[p].cause = t]_vars

\* C21: a heartbeat tick armed by the open of transport i sends its probe on
\* transport i, and the watchdog that tick armed tears down transport i: when
\* either runs while the session holds a transport, it is that one.
C21_TimersActOnOwnTransport ==
  [][/\ \A i \in intervals : (Tick(i) /\ ws # NoWs) => ws = i
     /\ \A w \in timeouts : (Watchdog(w) /\ ws # NoWs) => ws = w.by]_vars

\* C22: while the session holds no transport handle, no heartbeat interval
\* and no watchdog timer is armed.
C22_NoHandleNoTimers ==
  ws = NoWs => intervals = {} /\ timeouts = {}

\* C23: a step that starts a run of the reconnection path tears the held
\* transport down (handle dropped, listeners detached, stored timers
\* cancelled), sends 'stopWSUpdates' to the entities of the snapshot held at
\* that moment and leaves the run waiting, all before any refresh; a run
\* leaves its wait only by reading stay-alive, refreshing when it is true
\* and ending when it is false.
C23_ResetTearsDownNotifiesWaitsThenChecks ==
  [][/\ (Len(procs') = Len(procs) + 1 /\ procs'[Len(procs')].kind = "reset") =>
          /\ ws' = NoWs
          /\ ws # NoWs => /\ ~transports'[ws].listeners
                          /\ transports'[ws].state \notin {"connecting", "open"}
                          /\ wsPingInterval \notin intervals'
                          /\ wsPongTimeout \notin timeouts'
          /\ last'.op = "stopWSUpdates" /\ last'.to = devices.list
          /\ devices' = devices
          /\ procs'[Len(procs')].pc = "wait"
          /\ procs'[Len(procs')].refreshes = 0
          /\ procs'[Len(procs')].attempts = 0
     /\ \A p \in 1..Len(procs) :
          (procs[p].kind = "reset" /\ procs'[p] # procs[p] /\ procs[p].pc = "wait"
             /\ procs'[p].pc # "wait") =>
            /\ procs'[p].pc = IF keepWsAlive THEN "refresh" ELSE "done"
            /\ devices' = devices /\ ws' = ws /\ transports' = transports
     /\ \A p \in 1..Len(procs) :
          (procs[p].kind = "reset" /\ procs'[p].refreshes # procs[p].refreshes) =>
            procs[p].pc = "wait" /\ keepWsAlive]_vars

\* A run of the reconnection path that tore a held transport down, notified,
\* waited and found stay-alive true.
C23_Witness ==
  \E p \in 1..Len(procs) :
    /\ procs[p].kind = "reset" /\ procs[p].pc = "refresh" /\ procs[p].waitSaw = "alive"
    /\ procs[p].cause # NoWs /\ ~transports[procs[p].cause].listeners
    /\ last.op = "stopWSUpdates" /\ last.conn = procs[p].cause

\* No start() call and no run of the reconnection path is in progress.
Quiescent == \A p \in Pids : Finished(p)

\* C24: in a quiescent state with stay-alive true the session holds a
\* transport handle.
C24_QuiescentAliveHasTransport ==
  (Quiescent /\ keepWsAlive) => ws # NoWs

\* Transport t was torn down by closeWS, or a transport constructed after it
\* took its place as the session's handle.
Stale(t) == ~transports[t].listeners \/ t < Len(transports)

\* C25: no 'open', 'pong', 'error' or 'close' handler of the session runs
\* for a transport that was torn down or superseded.
C25_StaleTransportIsSilent ==
  [][\A t \in Tids :
       Stale(t) => ~(TransportOpen(t) \/ Pong(t) \/ TransportError(t) \/ TransportClose(t))]_vars

\* C26: a 'stopWSUpdates' round is the round of a connection that delivered
\* 'startWSUpdates' before, and every connection that delivered
\* 'startWSUpdates' and is open no more has delivered a 'stopWSUpdates' round.
C26_StartedAndStoppedPairUp ==
  /\ last.op = "stopWSUpdates" => (last.conn # NoWs /\ transports[last.conn].started)
  /\ \A t \in Tids :
       (transports[t].started /\ transports[t].state # "open") => ResetRuns(t) # {}

C28_OpenNotifiesAndArmsHeartbeat ==
  [][/\ \A t \in Tids :
          TransportOpen(t) =>
            /\ ~transports[t].started
            /\ last'.op = "startWSUpdates" /\ last'.conn = t /\ last'.to = devices.list
            /\ t \in intervals'
            /\ timeouts' = timeouts /\ pings' = pings
     /\ \A t \in 1..Len(transports') :
          transports'[t].state = "connecting" =>
            (t \notin pings' /\ \A w \in timeouts' : w.target # t)
     /\ \A i \in intervals :
          Tick(i) =>
            /\ Cardinality(timeouts' \ timeouts) = 1
            /\ ~crashed' /\ ws \in pings']_vars

\* C29: the 'pong' handler of transport t leaves no watchdog armed for a
\* probe sent on t, and changes neither the handle, the heartbeat interval,
\* stay-alive, the entities, the transports nor the runs in progress.
C29_PongCancelsWatchdogOnly ==
  [][\A t \in Tids :
       Pong(t) =>
         /\ \A w \in timeouts' : w.target # t
         /\ ws' = ws /\ wsPingInterval' = wsPingInterval /\ intervals' = intervals
         /\ keepWsAlive' = keepWsAlive /\ devices' = devices
         /\ transports' = transports /\ procs' = procs /\ ~crashed']_vars

\* C30: a start() call made while the session holds transport ws sets
\* stay-alive, terminates ws, detaches its listeners and leaves none of its
\* timers armed (neither the interval its open armed nor a watchdog for a
\* probe sent on it), and constructs no transport in that step: the call is
\* left at its first await.
C30_StartTerminatesHeldTransportFirst ==
  [][(Start /\ ws # NoWs) =>
       /\ keepWsAlive'
       /\ ws' = NoWs
       /\ transports'[ws].state = "terminated" /\ ~transports'[ws].listeners
       /\ ws \notin intervals'
       /\ \A w \in timeouts' : w.target # ws /\ w.by # ws
       /\ Len(transports') = Len(transports)
       /\ procs'[Len(procs')].pc \in {"fetch", "negotiate"}]_vars

\* C31: a stop() call, whatever the state, raises nothing and leaves
\* stay-alive false, no transport handle and no timer armed; the transport
\* it found is closed, not terminated, and every other teardown terminates.
C31_StopLeavesNothing ==
  [][/\ Stop =>
          /\ ~keepWsAlive' /\ ws' = NoWs /\ ~crashed'
          /\ intervals' = {} /\ timeouts' = {}
          /\ ws # NoWs => transports'[ws].state = "closed"
     /\ \A t \in Tids :
          (transports[t].listeners /\ ~transports'[t].listeners) =>
            transports'[t].state = IF Stop THEN "closed" ELSE "terminated"]_vars

\* C32: a held transport implies a populated registry, and so does a call
\* that waits for its endpoint; start() on an unpopulated registry waits for
\* the snapshot first; start() on a populated registry goes straight to the
\* endpoint request, and no step of a call that waits for its endpoint
\* replaces the entities.
C32_TransportImpliesRegistry ==
  [][/\ ws' # NoWs => devices'.defined
     /\ \A p \in 1..Len(procs') : procs'[p].pc = "negotiate" => devices'.defined
     /\ Start =>
          /\ procs'[Len(procs')].pc = IF devices.defined THEN "negotiate" ELSE "fetch"
          /\ devices' = devices
     /\ \A p \in Pids :
          (procs[p].kind = "start" /\ procs[p].pc = "negotiate"
             /\ procs'[p].pc # "negotiate") => devices' = devices]_vars

\* Two start() calls have finished and left a transport, and the entities
\* are still those of the first snapshot: the second call asked for none.
C32_Witness ==
  /\ Len(procs) = 2 /\ ws = 2
  /\ \A p \in Pids : procs[p].kind = "start" /\ procs[p].pc = "done"
  /\ devices.defined /\ devices.gen = 1

\* C33: a successful refresh puts a new generation of entities, built from
\* the snapshot alone, into the registry, and every 'startWSUpdates' round
\* and every 'wsUpdate' goes to the generation the registry holds at that
\* moment, never to an earlier one.
C33_RefreshReplacesEveryEntity ==
  [][/\ \A p \in Pids :
          (procs[p].pc = "refresh" /\ procs'[p].pc = "negotiate") =>
            /\ devices'.gen = devices.gen + 1
            /\ devices'.list = BuildFromSnapshot(SessionSnapshot).devices
     /\ (last' # last /\ last'.op = "startWSUpdates") =>
          (last'.gen = devices'.gen /\ last'.to = devices'.list)
     /\ (last' # last /\ last'.op = "message" /\ last'.emitted) =>
          (last'.gen = devices'.gen /\ last'.before = devices.list)]_vars

\* After a reconnection that replaced an entity changed by a delta, a
\* 'wsUpdate' of the second connection went to the second generation.
C33_Witness ==
  /\ last.op = "message" /\ last.emitted /\ last.gen = 2 /\ devices.gen = 2
  /\ ws = 2 /\ transports[1].started /\ transports[2].started
  /\ last.before = BuildFromSnapshot(SessionSnapshot).devices

\* C34: the step in which the snapshot refresh of a call fails ends that
\* call only: the registry, the transport handle, the transports, the armed
\* timers, stay-alive and the other calls are as before, and the process
\* lives on.
C34_FailedRefreshIsLocal ==
  [][\A p \in Pids :
       (procs[p].pc \in {"fetch", "refresh"} /\ procs'[p].pc = "failed") =>
         /\ devices' = devices
         /\ ws' = ws /\ transports' = transports
         /\ intervals' = intervals /\ timeouts' = timeouts
         /\ keepWsAlive' = keepWsAlive
         /\ \A q \in Pids : q # p => procs'[q] = procs[q]
         /\ ~crashed']_vars

\* C35: a refresh whose payload lacks the list of linked devices or the list
\* of included records raises an error and leaves the registry as it was.
C35_ShapelessPayloadFails ==
  [][(last' # last /\ last'.op = "update"
        /\ (~last'.input.hasData \/ ~last'.input.hasIncluded)) =>
       (last'.threw /\ devices' = devices)]_vars

\* A refresh of a payload without included records has failed.
C35_Witness ==
  /\ last.op = "update" /\ last.input.hasData /\ ~last.input.hasIncluded
  /\ last.threw /\ ~devices.defined

\* C36: after a successful refresh no two entities of the registry have the
\* same primary id.
C36_RegistryUniqueByPrimaryId ==
  (last.op = "update" /\ ~last.threw) =>
    \A i, j \in 1..Len(devices.list) :
      i # j => devices.list[i]["id"] # devices.list[j]["id"]

\* The records of the last payload linked to device id, in payload order,
\* and those of them whose attribute map names field f.
LinkedRecords(id) == SelectSeq2(last.input.included, id)
NamedBy(recs, f) ==
  {k \in 1..Len(recs) :
     recs[k].hasAttributes
       /\ \E n \in 1..Len(recs[k].attributes) : recs[k].attributes[n].name = f}

\* The field names the payloads tried use, and the timestamp an entity
\* holds for field f (none when it has no such property).
SnapFieldNames ==
  UNION {{q[n].name : n \in 1..Len(q)} : q \in SnapAttributes}
TsOf(dev, f) == IF (f \o "Ts") \in DOMAIN dev THEN dev[f \o "Ts"] ELSE Undefined

\* C37: after a successful refresh every entity holds, for each field its
\* linked records name, the value of the last record that names it, with
\* that record's timestamp or none when that record gives none, and nothing
\* for a field no record names.
C37_LastRecordWinsPerField ==
  (last.op = "update" /\ ~last.threw) =>
    \A i \in 1..Len(devices.list) :
      LET dev == devices.list[i]
          recs == LinkedRecords(dev["id"])
      IN \A f \in SnapFieldNames :
           LET named == NamedBy(recs, f)
           IN IF named = {}
                THEN dev[f] = Undefined /\ TsOf(dev, f) = Undefined
                ELSE LET k == CHOOSE x \in named : \A y \in named : y <= x
                         a == CHOOSE x \in {recs[k].attributes[n] :
                                              n \in 1..Len(recs[k].attributes)} : x.name = f
                     IN /\ dev[f] = a.value
                        /\ TsOf(dev, f) = IF a.timestamp = Absent THEN Undefined
                                          ELSE Moment(a.timestamp)

\* An entity built from two linked records of which the first names one
\* field with a timestamp and the second names it again without one.
C37_Witness ==
  /\ last.op = "update" /\ ~last.threw /\ Len(devices.list) = 1
  /\ LET recs == LinkedRecords(devices.list[1]["id"])
     IN /\ Len(recs) = 2
        /\ recs[1].hasAttributes /\ recs[1].attributes[1].name = "name"
        /\ recs[1].attributes[1].timestamp = "t1"
        /\ recs[2].hasAttributes /\ recs[2].attributes[1].name = "name"
        /\ recs[2].attributes[1].timestamp = Absent
  /\ devices.list[1]["name"] = "v1"

\* C38: a message leaves the primary id, the secondary id and the connection
\* reference of every entity as they were.
C38_DeltaKeepsIdentity ==
  last.op = "message" =>
    \A i \in 1..Len(last.before) :
      \A f \in {"id", "serviceId", "connection"} :
        devices.list[i][f] = last.before[i][f]

====
